---- MODULE Spec2Model ----
(***************************************************************************)
(* The game-state machine of src/pages/Index.tsx (the Index component).    *)
(*                                                                         *)
(* State: the component's useState cells that the game logic reads, the    *)
(* localStorage entry "snakeHighScore", and the timers the effects arm     *)
(* (the game-loop interval, the obstacle-spawn interval, the obstacle      *)
(* expiry timeouts) as the time remaining until each fires.                *)
(*                                                                         *)
(* Every handler (key press, button, timer callback) is one action: the    *)
(* handler's state updates, followed by the commit of the re-render, in    *)
(* which each effect whose dependency list changed clears its interval and *)
(* arms a fresh one (EffectsCommit).  Time passes in the Elapse actions.   *)
(* Presentation-only state (showScorePop, the canvas) is not represented.  *)
(***************************************************************************)
EXTENDS Integers, Sequences, FiniteSets

(* ------------------------------ constants ------------------------------ *)

GRID_SIZE == 20

Cell(x, y) == [x |-> x, y |-> y]

INITIAL_SNAKE == <<Cell(10, 10), Cell(9, 10), Cell(8, 10)>>

INITIAL_DIRECTION == "RIGHT"

INITIAL_FOOD == Cell(15, 15)

DIFFICULTY_SPEEDS == [easy |-> 150, medium |-> 100, hard |-> 60, impossible |-> 30]

SpawnWithinLifetime == 20 * DIFFICULTY_SPEEDS.easy

OBSTACLE_SPAWN_INTERVAL == 8000

LifetimeBeyondSpawn == OBSTACLE_SPAWN_INTERVAL + 1000

OBSTACLE_LIFETIME == 5000

(* ------------------------------- bounds -------------------------------- *)

\* A tick that would raise score above MaxScore is not explored.
MaxScore == 1

\* At most MaxTicks moves of the snake are explored in one run.
MaxTicks == 10

\* At most MaxTurns heading changes are explored in one run, not counting
\* those of the late inputs, and none while an expiry timeout is pending.
MaxTurns == 3

\* Late key presses, those handled at the instant a timer is due and before
\* its callback, are explored while the run has made at most MashTicks moves.
MashTicks == 0

\* The stored high score at page load is absent or MaxStored.
MaxStored == 2

\* Math.random() yields the cell right of the initial head or one of the
\* RandSpan - 1 cells above that cell.
RandSpan == 2

\* The player picks among the first Levels difficulty tiers.
Levels == 1

LevelOrder == <<"easy", "medium", "hard", "impossible">>

Difficulties == {LevelOrder[i] : i \in 1..Levels}

RandCells == {Cell(11, 11 - i) : i \in 1..RandSpan}

(* ------------------------------- helpers ------------------------------- *)

\* obstacle === null
Null == Cell(-1, -1)

\* a timer that is not armed
Off == -1

Cells(s) == {s[i] : i \in 1..Len(s)}

ArrowKeys == {"ArrowUp", "ArrowDown", "ArrowLeft", "ArrowRight"}

Keys == ArrowKeys \cup {" "}

DigitChars == <<"0", "1", "2", "3", "4", "5", "6", "7", "8", "9">>

RECURSIVE ToString(_)
\* Number.prototype.toString for a non-negative integer: its decimal digits.
ToString(n) ==
    IF n < 10 THEN <<DigitChars[n + 1]>>
    ELSE ToString(n \div 10) \o <<DigitChars[(n % 10) + 1]>>

DigitValue(c) == CHOOSE d \in 0..9 : DigitChars[d + 1] = c

IsDigit(c) == \E d \in 0..9 : DigitChars[d + 1] = c

NaN == -1

RECURSIVE ParseDigits(_, _)
ParseDigits(s, acc) ==
    IF s = <<>> \/ ~IsDigit(Head(s)) THEN acc
    ELSE ParseDigits(Tail(s), 10 * acc + DigitValue(Head(s)))

\* parseInt on a string without sign or blanks: the leading digits, NaN if none.
ParseInt(s) ==
    IF s = <<>> \/ ~IsDigit(Head(s)) THEN NaN ELSE ParseDigits(s, 0)

Min(S) == CHOOSE m \in S : \A n \in S : m <= n

VARIABLES
    snake, direction, food, isGameOver, isPlaying, isPaused, score, highScore,
    difficulty, obstacle, showDifficultySelect,
    storage,            \* localStorage["snakeHighScore"], <<>> when absent
    mounted,            \* the mount effects have run
    gameInterval,       \* time until the game-loop interval fires, or Off
    obstacleInterval,   \* time until the spawn interval fires, or Off
    expiryTimeouts,     \* times until the pending expiry timeouts fire
    toasts,             \* the notifications the last handler emitted
    heading,            \* the direction the last tick of this run moved in
    ticks,              \* the number of moves made in this run
    turns               \* the number of counted heading changes in this run

gameVars ==
    <<snake, direction, food, isGameOver, isPlaying, isPaused, score, highScore,
      difficulty, obstacle, showDifficultySelect>>

vars ==
    <<snake, direction, food, isGameOver, isPlaying, isPaused, score, highScore,
      difficulty, obstacle, showDifficultySelect, storage, mounted,
      gameInterval, obstacleInterval, expiryTimeouts, toasts, heading, ticks,
      turns>>

(* ------------------------------- effects ------------------------------- *)

\* the guard shared by the spawn effect and the game-loop effect
TimersActive == isPlaying /\ ~isGameOver /\ ~isPaused

GameLoopDeps ==
    <<direction, isPlaying, isGameOver, food, score, highScore, isPaused,
      difficulty, obstacle>>

ObstacleDeps == <<isPlaying, isGameOver, isPaused, snake, obstacle>>

GameLoopEffectNoGuard(running) ==
    gameInterval' =
        IF GameLoopDeps' # GameLoopDeps
        THEN DIFFICULTY_SPEEDS[difficulty']
        ELSE running

\* The game-loop effect at the commit of a render: when a dependency changed
\* the old interval is cleared and, if the guard passes, a new one is armed.
\* `running` is the interval's remaining time had no dependency changed.
GameLoopEffect(running) ==
    gameInterval' =
        IF GameLoopDeps' # GameLoopDeps
        THEN IF TimersActive' THEN DIFFICULTY_SPEEDS[difficulty'] ELSE Off
        ELSE running

ObstacleEffectNoGuard(running) ==
    obstacleInterval' =
        IF ObstacleDeps' # ObstacleDeps
        THEN OBSTACLE_SPAWN_INTERVAL
        ELSE running

\* The spawn effect at the commit of a render, like the game-loop effect.
ObstacleEffect(running) ==
    obstacleInterval' =
        IF ObstacleDeps' # ObstacleDeps
        THEN IF TimersActive' THEN OBSTACLE_SPAWN_INTERVAL ELSE Off
        ELSE running

EffectsCommit(gameRunning, obstacleRunning) ==
    /\ GameLoopEffect(gameRunning)
    /\ ObstacleEffect(obstacleRunning)

(* ----------------------------- generateFood ---------------------------- *)

\* The cells generateFood may return: any the random draw yields that is
\* not a segment of currentSnake.
generateFoodAnyCell(currentSnake) == RandCells

generateFood(currentSnake) == {c \in RandCells : c \notin Cells(currentSnake)}

(* -------------------------------- Init --------------------------------- *)

StoredValues == {<<>>, ToString(MaxStored)}

Init ==
    /\ snake = INITIAL_SNAKE
    /\ direction = INITIAL_DIRECTION
    /\ food = INITIAL_FOOD
    /\ isGameOver = FALSE
    /\ isPlaying = FALSE
    /\ isPaused = FALSE
    /\ score = 0
    /\ highScore = 0
    /\ difficulty = "medium"
    /\ obstacle = Null
    /\ showDifficultySelect = TRUE
    /\ storage \in StoredValues
    /\ mounted = FALSE
    /\ gameInterval = Off
    /\ obstacleInterval = Off
    /\ expiryTimeouts = <<>>
    /\ toasts = <<>>
    /\ heading = INITIAL_DIRECTION
    /\ ticks = 0
    /\ turns = 0

(* -------------------------------- time --------------------------------- *)

ArmedTimers ==
    (IF gameInterval # Off THEN {gameInterval} ELSE {})
        \cup (IF obstacleInterval # Off THEN {obstacleInterval} ELSE {})
        \cup Cells(expiryTimeouts)

TimerDue == 0 \in ArmedTimers

\* An input of the player is explored at the instants where no timer is due.
InputTime == ~TimerDue

\* the keys explored as late inputs
LateKeys == {"ArrowUp", "ArrowRight"}

\* A key press is also explored as a late input: handled at the instant a
\* timer is due, before the timer's callback.
KeyTime(key) ==
    ~TimerDue \/ (key \in LateKeys /\ ticks <= MashTicks)

\* a heading change that is not a late input is explored
TurnExplored == turns < MaxTurns /\ expiryTimeouts = <<>>

After(t, d) == IF t = Off THEN Off ELSE t - d

\* time passes until the next timer is due
Elapse ==
    /\ ArmedTimers # {}
    /\ ~TimerDue
    /\ LET d == Min(ArmedTimers) IN
        /\ gameInterval' = After(gameInterval, d)
        /\ obstacleInterval' = After(obstacleInterval, d)
        /\ expiryTimeouts' =
               [i \in 1..Len(expiryTimeouts) |-> expiryTimeouts[i] - d]
    /\ toasts' = <<>>
    /\ UNCHANGED <<gameVars, storage, mounted, heading, ticks, turns>>

(* ------------------------------- actions ------------------------------- *)

\* the mount effect that loads the high score
LoadHighScore ==
    /\ ~mounted
    /\ mounted' = TRUE
    /\ highScore' = IF storage # <<>> THEN ParseInt(storage) ELSE highScore
    /\ UNCHANGED <<snake, direction, food, isGameOver, isPlaying, isPaused, score,
                   difficulty, obstacle, showDifficultySelect, storage,
                   expiryTimeouts, toasts, heading, ticks, turns>>
    /\ EffectsCommit(gameInterval, obstacleInterval)

StartScoreKept == score

\* setScore(0) in startGame
StartScore == 0

StartShowsSelectKept == showDifficultySelect

\* setShowDifficultySelect(false) in startGame
StartShowsSelect == FALSE

startGame ==
    /\ snake' = INITIAL_SNAKE
    /\ direction' = INITIAL_DIRECTION
    /\ food' \in generateFood(INITIAL_SNAKE)
    /\ score' = StartScore
    /\ isGameOver' = FALSE
    /\ isPlaying' = TRUE
    /\ isPaused' = FALSE
    /\ obstacle' = Null
    /\ showDifficultySelect' = StartShowsSelect
    /\ toasts' = <<"Game Started! Use arrow keys to control the snake.">>
    /\ heading' = INITIAL_DIRECTION
    /\ ticks' = 0
    /\ turns' = 0
    /\ UNCHANGED <<highScore, difficulty, storage, mounted, expiryTimeouts>>
    /\ EffectsCommit(gameInterval, obstacleInterval)

\* the difficulty screen is rendered
MenuScreen == showDifficultySelect /\ ~isPlaying

\* the "Start Game" button of the difficulty screen
StartButton ==
    /\ mounted /\ InputTime
    /\ MenuScreen
    /\ startGame

\* a difficulty button of the difficulty screen
SelectDifficulty ==
    /\ mounted /\ InputTime
    /\ MenuScreen
    /\ \E level \in Difficulties : difficulty' = level
    /\ toasts' = <<>>
    /\ UNCHANGED <<snake, direction, food, isGameOver, isPlaying, isPaused, score,
                   highScore, obstacle, showDifficultySelect, storage, mounted,
                   expiryTimeouts, heading, ticks, turns>>
    /\ EffectsCommit(gameInterval, obstacleInterval)

Opposite(d) ==
    CASE d = "UP" -> "DOWN"
      [] d = "DOWN" -> "UP"
      [] d = "LEFT" -> "RIGHT"
      [] d = "RIGHT" -> "LEFT"

KeyDirection(key) ==
    CASE key = "ArrowUp" -> "UP"
      [] key = "ArrowDown" -> "DOWN"
      [] key = "ArrowLeft" -> "LEFT"
      [] key = "ArrowRight" -> "RIGHT"

\* the direction after an arrow key: the guards of the switch in handleKeyPress
TurnTo(current, key) ==
    IF current # Opposite(KeyDirection(key)) THEN KeyDirection(key) ELSE current

SpaceStartsAlways == TRUE

SpaceStartsNever == FALSE

\* the test `!isPlaying` under which the space key calls startGame
SpaceStarts == ~isPlaying

\* the keydown listener, on the key `key`
KeyPress(key) ==
    /\ KeyTime(key)
    /\ IF ~isPlaying \/ isPaused
       THEN IF key = " "
            THEN IF SpaceStarts
                 THEN startGame
                 ELSE /\ isPaused' = ~isPaused
                      /\ toasts' = <<>>
                      /\ UNCHANGED <<snake, direction, food, isGameOver, isPlaying,
                                     score, highScore, difficulty, obstacle,
                                     showDifficultySelect, storage, mounted,
                                     expiryTimeouts, heading, ticks, turns>>
                      /\ EffectsCommit(gameInterval, obstacleInterval)
            ELSE /\ toasts' = <<>>
                 /\ UNCHANGED <<gameVars, storage, mounted, expiryTimeouts,
                                heading, ticks, turns>>
                 /\ EffectsCommit(gameInterval, obstacleInterval)
       ELSE /\ direction' = IF key \in ArrowKeys THEN TurnTo(direction, key)
                            ELSE direction
            /\ isPaused' = IF key = " " THEN ~isPaused ELSE isPaused
            /\ IF direction' # direction /\ ~TimerDue
               THEN TurnExplored /\ turns' = turns + 1
               ELSE turns' = turns
            /\ toasts' = <<>>
            /\ UNCHANGED <<snake, food, isGameOver, isPlaying, score, highScore,
                           difficulty, obstacle, showDifficultySelect, storage,
                           mounted, expiryTimeouts, heading, ticks>>
            /\ EffectsCommit(gameInterval, obstacleInterval)

\* a keydown event reaches the listener
handleKeyPress ==
    /\ mounted
    /\ \E key \in Keys : KeyPress(key)

\* the game screen shows the Pause button, the pause overlay the Resume button
PauseButtonShown == ~MenuScreen /\ ((isPaused /\ ~isGameOver) \/ ~(~isPlaying \/ isGameOver))

\* the Pause button and the Resume button of the pause overlay
togglePause ==
    /\ mounted /\ InputTime
    /\ PauseButtonShown
    /\ IF ~isPlaying \/ isGameOver
       THEN /\ toasts' = <<>>
            /\ UNCHANGED isPaused
       ELSE /\ isPaused' = ~isPaused
            /\ toasts' = <<IF isPaused THEN "Game Resumed" ELSE "Game Paused">>
    /\ UNCHANGED <<snake, direction, food, isGameOver, isPlaying, score, highScore,
                   difficulty, obstacle, showDifficultySelect, storage, mounted,
                   expiryTimeouts, heading, ticks, turns>>
    /\ EffectsCommit(gameInterval, obstacleInterval)

MenuButtonShownAlways == ~MenuScreen

\* a Main Menu button is rendered: in the pause overlay, or in the controls row
MenuButtonShown == ~MenuScreen /\ ((isPaused /\ ~isGameOver) \/ (~isPlaying \/ isGameOver))

\* the Main Menu buttons
returnToMainMenu ==
    /\ mounted /\ InputTime
    /\ MenuButtonShown
    /\ isPlaying' = FALSE
    /\ isGameOver' = FALSE
    /\ isPaused' = FALSE
    /\ showDifficultySelect' = TRUE
    /\ obstacle' = Null
    /\ toasts' = <<"Returned to Main Menu">>
    /\ UNCHANGED <<snake, direction, food, score, highScore, difficulty, storage,
                   mounted, expiryTimeouts, heading, ticks, turns>>
    /\ EffectsCommit(gameInterval, obstacleInterval)

(* ------------------------------ game loop ------------------------------ *)

\* "Move head": the switch on direction
MoveHead(head, dir) ==
    CASE dir = "UP" -> Cell(head.x, head.y - 1)
      [] dir = "DOWN" -> Cell(head.x, head.y + 1)
      [] dir = "LEFT" -> Cell(head.x - 1, head.y)
      [] dir = "RIGHT" -> Cell(head.x + 1, head.y)

WallCollisionOffByOne(head) ==
    head.x < 0 \/ head.x > GRID_SIZE \/ head.y < 0 \/ head.y > GRID_SIZE

WallCollision(head) ==
    head.x < 0 \/ head.x >= GRID_SIZE \/ head.y < 0 \/ head.y >= GRID_SIZE

SelfCollisionWithoutTail(newSnake, head) ==
    \E i \in 1..(Len(newSnake) - 1) : newSnake[i] = head

\* newSnake.some(...): the body before the move, tail included
SelfCollision(newSnake, head) == \E i \in 1..Len(newSnake) : newSnake[i] = head

ObstacleCollision(obs, head) == obs # Null /\ head.x = obs.x /\ head.y = obs.y

FoodCollision(head) == head.x = food.x /\ head.y = food.y

IsNewHighScoreAlways(newScore) == TRUE

IsNewHighScoreOrEqual(newScore) == newScore >= highScore

IsNewHighScore(newScore) == newScore > highScore

GameOverSilent(message) ==
    /\ isGameOver' = TRUE
    /\ isPlaying' = FALSE
    /\ toasts' = <<>>
    /\ UNCHANGED <<snake, food, score, highScore, storage, ticks>>

GameOverAppliesMove(message) ==
    /\ isGameOver' = TRUE
    /\ isPlaying' = FALSE
    /\ toasts' = <<message>>
    /\ snake' = <<MoveHead(snake[1], direction)>> \o SubSeq(snake, 1, Len(snake) - 1)
    /\ UNCHANGED <<food, score, highScore, storage, ticks>>

\* a collision branch: the run ends and the updater returns prevSnake
GameOver(message) ==
    /\ isGameOver' = TRUE
    /\ isPlaying' = FALSE
    /\ toasts' = <<message>>
    /\ UNCHANGED <<snake, food, score, highScore, storage, ticks>>

\* the food branch, on the snake with the new head unshifted
EatFood(newSnake) ==
    LET newScore == score + 1 IN
    /\ newScore <= MaxScore
    /\ score' = newScore
    /\ IF IsNewHighScore(newScore)
       THEN /\ highScore' = newScore
            /\ storage' = ToString(newScore)
            /\ toasts' = <<"New High Score!", "+1 Point!">>
       ELSE /\ toasts' = <<"+1 Point!">>
            /\ UNCHANGED <<highScore, storage>>
    /\ food' \in generateFood(newSnake)
    /\ snake' = newSnake

MoveOnNoPop(newSnake) ==
    /\ snake' = newSnake
    /\ toasts' = <<>>
    /\ UNCHANGED <<food, score, highScore, storage>>

\* the other branch: newSnake.pop()
MoveOn(newSnake) ==
    /\ snake' = SubSeq(newSnake, 1, Len(newSnake) - 1)
    /\ toasts' = <<>>
    /\ UNCHANGED <<food, score, highScore, storage>>

\* the game-loop interval callback: setSnake's updater
GameTick ==
    /\ gameInterval = 0
    /\ LET head == MoveHead(snake[1], direction) IN
       IF WallCollision(head)
       THEN GameOver("Game Over! You hit the wall!")
       ELSE IF SelfCollision(snake, head)
       THEN GameOver("Game Over! You hit yourself!")
       ELSE IF ObstacleCollision(obstacle, head)
       THEN GameOver("Game Over! You hit an obstacle!")
       ELSE /\ ticks < MaxTicks
            /\ ticks' = ticks + 1
            /\ IF FoodCollision(head)
               THEN EatFood(<<head>> \o snake)
               ELSE MoveOn(<<head>> \o snake)
            /\ UNCHANGED <<isGameOver, isPlaying>>
    /\ heading' = direction
    /\ UNCHANGED <<direction, isPaused, difficulty, obstacle, showDifficultySelect,
                   mounted, expiryTimeouts, turns>>
    /\ EffectsCommit(DIFFICULTY_SPEEDS[difficulty], obstacleInterval)

(* --------------------------- obstacle timers --------------------------- *)

\* the cells spawnObstacle keeps the new obstacle away from
SpawnExclusion == snake \o (IF obstacle # Null THEN <<obstacle>> ELSE <<>>)

\* the spawn interval callback
spawnObstacle ==
    /\ obstacleInterval = 0
    /\ obstacle' \in generateFood(SpawnExclusion)
    /\ expiryTimeouts' = Append(expiryTimeouts, OBSTACLE_LIFETIME)
    /\ toasts' = <<>>
    /\ UNCHANGED <<snake, direction, food, isGameOver, isPlaying, isPaused, score,
                   highScore, difficulty, showDifficultySelect, storage, mounted,
                   heading, ticks, turns>>
    /\ EffectsCommit(gameInterval, OBSTACLE_SPAWN_INTERVAL)

\* the timeout armed by spawnObstacle: setObstacle(null)
ExpireObstacle ==
    /\ expiryTimeouts # <<>>
    /\ Head(expiryTimeouts) = 0
    /\ expiryTimeouts' = Tail(expiryTimeouts)
    /\ obstacle' = Null
    /\ toasts' = <<>>
    /\ UNCHANGED <<snake, direction, food, isGameOver, isPlaying, isPaused, score,
                   highScore, difficulty, showDifficultySelect, storage, mounted,
                   heading, ticks, turns>>
    /\ EffectsCommit(gameInterval, obstacleInterval)

Next ==
    \/ LoadHighScore
    \/ StartButton
    \/ SelectDifficulty
    \/ handleKeyPress
    \/ togglePause
    \/ returnToMainMenu
    \/ GameTick
    \/ spawnObstacle
    \/ ExpireObstacle
    \/ Elapse

Spec == Init /\ [][Next]_vars

(* -------------------------------- claims ------------------------------- *)

\* the cell in front of the head, in the direction set at this instant
NewHead ==
    LET h == snake[1] IN
    CASE direction = "UP" -> [x |-> h.x, y |-> h.y - 1]
      [] direction = "DOWN" -> [x |-> h.x, y |-> h.y + 1]
      [] direction = "LEFT" -> [x |-> h.x - 1, y |-> h.y]
      [] direction = "RIGHT" -> [x |-> h.x + 1, y |-> h.y]

Count(seq, S) == Cardinality({i \in 1..Len(seq) : seq[i] \in S})

CollisionToasts ==
    {"Game Over! You hit the wall!", "Game Over! You hit yourself!",
     "Game Over! You hit an obstacle!"}

\* C1: a tick never moves in the exact opposite of the direction the
\* previous tick of the run moved in, whatever keys arrived in between.
C1_NoReversalBetweenTicks ==
    [][GameTick /\ ticks >= 1 => heading' # Opposite(heading)]_vars

\* C2: in every reachable state the food cell is no cell of the snake, and
\* the obstacle, when present, is no cell of the snake.
C2_FoodAndHazardOffSnake ==
    /\ food \notin Cells(snake)
    /\ obstacle # Null => obstacle \notin Cells(snake)

\* C2 witness: an obstacle is on the board of a run in which the snake has
\* eaten, so that the food was regenerated next to the obstacle.
C2_Witness ==
    isPlaying /\ obstacle # Null /\ score >= 1 /\ Len(snake) = Len(INITIAL_SNAKE) + 1

\* C3: whenever an obstacle is present, the food cell differs from it.
C3_FoodOffHazard == obstacle # Null => food # obstacle

\* C4: the snake holds no cell twice and every cell of it is inside the grid.
C4_BodyDistinctInGrid ==
    /\ \A i, j \in 1..Len(snake) : i # j => snake[i] # snake[j]
    /\ \A i \in 1..Len(snake) :
        /\ 0 <= snake[i].x /\ snake[i].x < 20
        /\ 0 <= snake[i].y /\ snake[i].y < 20

\* C4 witness: a run ended at the right wall, the head in the last column.
C4_Witness ==
    isGameOver /\ snake[1].x = 19 /\ heading = "RIGHT" /\ ticks >= 1

\* C5: a tick that ends the run reports exactly one collision kind, a tick
\* that does not end it reports none.
C5_OneCollisionKind ==
    [][GameTick =>
        Count(toasts', CollisionToasts) = (IF isGameOver' THEN 1 ELSE 0)
        /\ (isGameOver' => Len(toasts') = 1)]_vars

\* C5 witness: the run ended on a cell that held both the obstacle and the
\* food, and the obstacle collision alone was reported.
C5_Witness ==
    /\ isGameOver
    /\ toasts = <<"Game Over! You hit an obstacle!">>
    /\ obstacle = food
    /\ NewHead = obstacle

\* C6: a tick whose new head is outside the grid, on the snake or on the
\* obstacle ends the run and leaves snake, food, score and highScore as
\* they were.
C6_FatalTickDiscardsMove ==
    [][(GameTick
            /\ \/ NewHead.x < 0 \/ NewHead.x >= 20 \/ NewHead.y < 0 \/ NewHead.y >= 20
               \/ NewHead \in Cells(snake)
               \/ (obstacle # Null /\ NewHead = obstacle))
        => /\ isPlaying /\ ~isPaused /\ ~isGameOver
           /\ isGameOver' /\ ~isPlaying'
           /\ snake' = snake /\ food' = food
           /\ score' = score /\ highScore' = highScore]_vars

\* C6 witness: the run ended with the head at (19,10) heading RIGHT.
C6_Witness ==
    /\ isGameOver
    /\ toasts = <<"Game Over! You hit the wall!">>
    /\ snake[1] = [x |-> 19, y |-> 10]
    /\ direction = "RIGHT"

\* C7: a tick that does not end the run keeps the snake's length, except
\* when the new head is the food cell: then the new head is prepended, the
\* tail is kept and the new food is off the grown snake.
C7_LengthChangesOnlyOnFood ==
    [][(GameTick /\ ~isGameOver')
        => IF NewHead = food
           THEN snake' = <<NewHead>> \o snake /\ food' \notin Cells(snake')
           ELSE Len(snake') = Len(snake) /\ snake'[1] = NewHead]_vars

\* C7 witness: the tick just made ate the food and the snake has grown by one.
C7_Witness ==
    /\ Count(toasts, {"+1 Point!"}) = 1
    /\ Len(snake) = Len(INITIAL_SNAKE) + 1
    /\ food \notin Cells(snake)

\* C8: score is never negative; a step changes it only by starting a run
\* (to 0) or by a tick whose head lands on the food (by +1), and those two
\* steps always do so.
C8_ScoreChanges ==
    /\ [](score >= 0)
    /\ [][/\ score' # score =>
                \/ (~isPlaying /\ isPlaying' /\ score' = 0)
                \/ (GameTick /\ NewHead = food /\ score' = score + 1)
          /\ (~isPlaying /\ isPlaying') => score' = 0
          /\ (GameTick /\ ~isGameOver' /\ NewHead = food) => score' = score + 1]_vars

\* C8 witness: a run was just started with score 0 after a run that scored.
C8_Witness ==
    /\ toasts = <<"Game Started! Use arrow keys to control the snake.">>
    /\ score = 0
    /\ highScore = 1
    /\ storage = <<"1">>

\* C9: no step decreases highScore.
C9_BestScoreMonotone == [][highScore' >= highScore]_vars

\* C9 witness: a run is being played with a score below the high score
\* that an earlier run or the store set.
C9_Witness == isPlaying /\ ticks >= 1 /\ score >= 1 /\ score < highScore

\* C10: on a tick that eats, when the new score exceeds highScore then
\* highScore and the stored value become the new score and the new-record
\* notification is emitted once; otherwise highScore and the stored value
\* stay and no new-record notification is emitted.  So score <= highScore
\* in every state.
C10_RecordOnExceed ==
    /\ [](score <= highScore)
    /\ [][(GameTick /\ ~isGameOver' /\ NewHead = food)
            => IF score + 1 > highScore
               THEN /\ highScore' = score + 1
                    /\ ParseInt(storage') = score + 1
                    /\ Count(toasts', {"New High Score!"}) = 1
               ELSE /\ highScore' = highScore
                    /\ storage' = storage
                    /\ Count(toasts', {"New High Score!"}) = 0]_vars

\* C10 witness: the tick just made set a new record and the store holds it.
C10_Witness ==
    /\ toasts = <<"New High Score!", "+1 Point!">>
    /\ highScore = score
    /\ ParseInt(storage) = score

\* the run mode the state cells encode
RunMode ==
    IF isGameOver THEN "Terminated"
    ELSE IF ~isPlaying THEN "Idle"
    ELSE IF isPaused THEN "Paused"
    ELSE "Running"

\* the step is a call of startGame
StartStep == toasts' = <<"Game Started! Use arrow keys to control the snake.">>

\* the pairs <<from, to>> of the run-mode changes the state machine lists
ListedTransitions ==
    {<<"Idle", "Running">>, <<"Running", "Paused">>, <<"Paused", "Running">>,
     <<"Running", "Terminated">>, <<"Terminated", "Running">>}

\* C11 as stated: a step that changes the run mode takes one of the five
\* listed transitions; no step goes from Paused or Terminated to Idle.
C11_OnlyListedTransitions ==
    [][RunMode' # RunMode => <<RunMode, RunMode'>> \in ListedTransitions]_vars

\* C11 amended: a step that changes the run mode is a start from Idle or
\* Terminated to Running, a pause toggle between Running and Paused, a
\* colliding tick from Running to Terminated, or the main-menu return from
\* Paused or Terminated to Idle; and the state cells always encode exactly
\* one of the four modes.
C11_TransitionsWithMenuReturn ==
    /\ [](isGameOver => ~isPlaying /\ ~isPaused)
    /\ [](isPaused => isPlaying)
    /\ [][RunMode' # RunMode =>
            \/ /\ <<RunMode, RunMode'>> \in {<<"Idle", "Running">>, <<"Terminated", "Running">>}
               /\ StartStep
            \/ /\ <<RunMode, RunMode'>> \in {<<"Running", "Paused">>, <<"Paused", "Running">>}
               /\ togglePause \/ KeyPress(" ")
            \/ /\ <<RunMode, RunMode'>> = <<"Running", "Terminated">>
               /\ GameTick
            \/ /\ <<RunMode, RunMode'>> \in {<<"Paused", "Idle">>, <<"Terminated", "Idle">>}
               /\ returnToMainMenu]_vars

\* C11 witness: the main-menu return brought a run that had moved back to Idle.
C11_Witness ==
    /\ RunMode = "Idle"
    /\ toasts = <<"Returned to Main Menu">>
    /\ ticks >= 1

\* a start signal arrives: the Start Game button, or the space key while no
\* run is in progress
StartSignal ==
    StartButton \/ (mounted /\ KeyPress(" ") /\ RunMode \in {"Idle", "Terminated"})

\* C12: a call of startGame happens only in Idle or Terminated, and a start
\* signal there sets, in that one step, the snake to the initial three
\* cells heading RIGHT, the food to a cell off that body, score to 0, the
\* obstacle to absent and the run mode to Running; the space key in Running
\* or Paused resets nothing.
C12_StartOnlyFromIdleOrTerminated ==
    [][/\ StartStep => RunMode \in {"Idle", "Terminated"}
       /\ StartSignal =>
            /\ StartStep
            /\ snake' = <<[x |-> 10, y |-> 10], [x |-> 9, y |-> 10], [x |-> 8, y |-> 10]>>
            /\ direction' = "RIGHT"
            /\ food' \notin Cells(snake')
            /\ score' = 0
            /\ obstacle' = Null
            /\ RunMode' = "Running"
       /\ (KeyPress(" ") /\ RunMode \in {"Running", "Paused"}) =>
            UNCHANGED <<snake, direction, food, score, obstacle>>]_vars

\* C12 witness: a run was just started after a run that had set the record.
C12_Witness ==
    /\ toasts = <<"Game Started! Use arrow keys to control the snake.">>
    /\ RunMode = "Running"
    /\ highScore = 1
    /\ ticks = 0
    /\ gameInterval # Off

\* the expiry timeout due now was armed for the obstacle on the board
OwnExpiry == obstacle # Null /\ Len(expiryTimeouts) = 1

\* C13: an expiry timeout that fires after its obstacle was cleared by the
\* main-menu return or by the start of a new run changes nothing: not the
\* obstacle of the new run, no other state cell and no interval.
C13_StaleExpiryChangesNothing ==
    [][(ExpireObstacle /\ ~OwnExpiry)
        => UNCHANGED <<gameVars, gameInterval, obstacleInterval>>]_vars

\* C13 witness: in a run started after the main-menu return cleared the
\* obstacle, the expiry timeout armed for that obstacle is due.
C13_Witness ==
    /\ RunMode = "Running"
    /\ obstacle = Null
    /\ expiryTimeouts # <<>>
    /\ Head(expiryTimeouts) = 0

\* C14: the spawn interval counts down on its own: a tick that moves the
\* snake leaves the time remaining until the next spawn as it was, neither
\* delaying nor restarting the countdown.
C14_TicksKeepSpawnCountdown ==
    [][(GameTick /\ RunMode' = "Running")
        => obstacleInterval' = obstacleInterval]_vars

\* C15: while the run mode is Paused or Terminated neither interval is
\* armed, so no tick and no spawn fires, and every step other than a start
\* leaves snake, direction, food and score as they were; arrow keys included.
C15_FrozenWhilePausedOrTerminated ==
    /\ [](RunMode \in {"Paused", "Terminated"}
            => gameInterval = Off /\ obstacleInterval = Off)
    /\ [][(RunMode \in {"Paused", "Terminated"}) =>
            /\ ~GameTick
            /\ ~spawnObstacle
            /\ ~StartStep => UNCHANGED <<snake, direction, food, score>>]_vars

\* C15 witness: a run that has moved and scored is paused.
C15_Witness ==
    /\ RunMode = "Paused"
    /\ ticks >= 1
    /\ score = 1
    /\ gameInterval = Off

\* a pause-toggle signal arrives: the Pause or Resume button, or the space key
PauseSignal == togglePause \/ (mounted /\ KeyPress(" "))

\* the cells of the game state other than the two the run mode is read from
BoardCells == <<snake, direction, food, score, highScore, difficulty, obstacle>>

\* C16 as stated: the pause button and the space key flip the run mode
\* between Running and Paused, and in Idle and Terminated they change
\* neither the run mode nor any other game state.
C16_ToggleNoOpOutsideRun ==
    [][PauseSignal =>
        CASE RunMode = "Running" -> RunMode' = "Paused"
          [] RunMode = "Paused" -> RunMode' = "Running"
          [] OTHER -> UNCHANGED gameVars]_vars

\* C16 amended: the pause button and the space key flip the run mode
\* between Running and Paused and change no other game state; in Idle and
\* Terminated no pause button is offered and the space key starts a run.
C16_ToggleFlipsSpaceStarts ==
    [][PauseSignal =>
        CASE RunMode = "Running" -> RunMode' = "Paused" /\ UNCHANGED BoardCells
          [] RunMode = "Paused" -> RunMode' = "Running" /\ UNCHANGED BoardCells
          [] OTHER -> ~togglePause /\ StartStep /\ RunMode' = "Running"]_vars

\* C16 witness: the Resume button just took a run that has moved from
\* Paused back to Running.
C16_Witness ==
    /\ toasts = <<"Game Resumed">>
    /\ RunMode = "Running"
    /\ ticks >= 1

\* C17: the timeout armed at a spawn is due 5000 later and stays pending
\* while that obstacle is on the board, in every run mode; and an obstacle
\* on the board is taken off only by that timeout, alone pending, or by a
\* reset of the run (start, main-menu return): no timeout armed for an
\* earlier obstacle clears it and no later spawn displaces it.
C17_HazardLivesItsLifetime ==
    /\ [](obstacle # Null =>
            /\ expiryTimeouts # <<>>
            /\ expiryTimeouts[Len(expiryTimeouts)] \in 0..5000)
    /\ [][/\ spawnObstacle => expiryTimeouts'[Len(expiryTimeouts')] = 5000
          /\ (obstacle # Null /\ obstacle' # obstacle) =>
                \/ ExpireObstacle /\ Len(expiryTimeouts) = 1 /\ obstacle' = Null
                \/ StartStep
                \/ returnToMainMenu]_vars

\* C17 witness: a paused run's obstacle has been on the board for its full
\* lifetime and its timeout is due.
C17_Witness ==
    /\ RunMode = "Paused"
    /\ obstacle # Null
    /\ Len(expiryTimeouts) = 1
    /\ Head(expiryTimeouts) = 0

\* C18: the spawn callback fires only in run mode Running and only with no
\* obstacle on the board, so it never replaces or moves one; and at most
\* one expiry timeout is pending at any time.
C18_SpawnOnlyRunningNoHazard ==
    /\ [](Len(expiryTimeouts) <= 1)
    /\ [][spawnObstacle =>
            /\ RunMode = "Running"
            /\ obstacle = Null
            /\ obstacle' # Null
            /\ Len(expiryTimeouts') = 1]_vars

\* C18 witness: the spawn callback has just put an obstacle on the board of
\* a running game.
C18_Witness ==
    /\ RunMode = "Running"
    /\ obstacle # Null
    /\ expiryTimeouts = <<5000>>
    /\ obstacleInterval = 8000

\* C19: a tick whose new head is the cell the tail holds before the move
\* ends the run with the self collision and leaves the snake as it was,
\* although the move would have vacated that cell.
C19_TailCellCollides ==
    [][(GameTick /\ NewHead = snake[Len(snake)])
        => /\ isGameOver'
           /\ toasts' = <<"Game Over! You hit yourself!">>
           /\ snake' = snake]_vars

\* C19 witness: the run ended on the self collision with the head next to
\* the tail and turned towards it.
C19_Witness ==
    /\ isGameOver
    /\ toasts = <<"Game Over! You hit yourself!">>
    /\ NewHead = snake[Len(snake)]
    /\ NewHead # food

\* C20: a step changes difficulty only in run mode Idle, by a difficulty
\* button of the menu screen, and leaves the run mode Idle; no step of a
\* run that is Running, Paused or Terminated changes it.
C20_DifficultyChangesOnlyInIdle ==
    [][difficulty' # difficulty =>
        /\ RunMode = "Idle"
        /\ RunMode' = "Idle"
        /\ SelectDifficulty]_vars

\* C20 witness: a run played on a difficulty picked on the menu screen has
\* moved and ended.
C20_Witness ==
    /\ RunMode = "Terminated"
    /\ difficulty = "easy"
    /\ ticks >= 1

\* C21: while the run mode is Running the game-loop interval is armed, and
\* a key press that changes the direction leaves the time remaining until
\* the next tick as it was: it does not restart the tick countdown.
C21_TurnKeepsTickCountdown ==
    /\ [](RunMode = "Running" => gameInterval # Off)
    /\ [][(RunMode = "Running" /\ RunMode' = "Running" /\ direction' # direction)
            => gameInterval' = gameInterval]_vars

====
